---------------------------- MODULE Spec2Model ----------------------------
(***************************************************************************)
(* Model of src/module/loader/loader.py: get_dataset (name resolution),    *)
(* get_dataset_info (streaming statistics) and load_dataset (pipeline      *)
(* assembly).                                                              *)
(*                                                                         *)
(* Strings are sequences of ASCII code points.  Tensor elements are exact  *)
(* real numbers of the form  q1*sqrt(d1) + ... + qk*sqrt(dk)  (rational    *)
(* coefficients, square-free radicands) or NaN; float32 rounding is not    *)
(* modelled.                                                               *)
(***************************************************************************)
EXTENDS Integers, Sequences, FiniteSets, TLC

\* ------------------------------------------------------------------ bounds
MaxNameLen == 3
MaxBatches == 2
MaxPixel == 1
MaxChannels == 3
MaxDataset == 3
MaxBatchSize == 2
MaxWorkers == 1

None == << >>

\* =================================================================== strings
\* Characters an input name is drawn from: space, tab, 'A', 'a', 'b'.
InputChars == {32, 9, 65, 97, 98}

\* Identifiers dir(datasets) may hold: "A", "a", "Ab", "b", "bA", "_a".
IdentPool == { <<65>>, <<97>>, <<65, 98>>, <<98>>, <<98, 65>>, <<95, 97>> }

Names == UNION { [1..k -> InputChars] : k \in 0..MaxNameLen }

\* str.strip() removes these (ASCII) characters from both ends.
Whitespace == {9, 10, 11, 12, 13, 28, 29, 30, 31, 32}

LowerChar(c) == IF c \in 65..90 THEN c + 32 ELSE c

Lower(s) == [i \in 1..Len(s) |-> LowerChar(s[i])]

Strip(s) ==
    LET keep == {i \in 1..Len(s) : s[i] \notin Whitespace}
    IN  IF keep = {} THEN << >>
        ELSE LET lo == CHOOSE i \in keep : \A j \in keep : i <= j
                 hi == CHOOSE i \in keep : \A j \in keep : j <= i
             IN  SubSeq(s, lo, hi)

RECURSIVE RemoveChar(_, _)
RemoveChar(s, c) ==
    IF s = << >> THEN << >>
    ELSE IF Head(s) = c THEN RemoveChar(Tail(s), c)
         ELSE <<Head(s)>> \o RemoveChar(Tail(s), c)

\* name.lower().strip().replace(" ", "")
Normalize(s) == RemoveChar(Strip(Lower(s)), 32)

StartsWithUnderscore(s) == Len(s) > 0 /\ s[1] = 95

\* Python's str ordering: by code point, a proper prefix first.
RECURSIVE StrLess(_, _)
StrLess(a, b) ==
    IF b = << >> THEN FALSE
    ELSE IF a = << >> THEN TRUE
    ELSE IF Head(a) # Head(b) THEN Head(a) < Head(b)
    ELSE StrLess(Tail(a), Tail(b))

\* dir(module): the attribute names as a sorted list.
RECURSIVE SortedList(_)
SortedList(S) ==
    IF S = {} THEN << >>
    ELSE LET m == CHOOSE x \in S : \A y \in S \ {x} : StrLess(x, y)
         IN  <<m>> \o SortedList(S \ {m})

Dir(reg) == SortedList(reg)

\* The dict comprehension {name.lower(): name for name in dir(datasets) if
\* not name.startswith("_")}: a later name overwrites an earlier one with the
\* same key.  A dict is a function from its keys.
RECURSIVE DictFrom(_, _)
DictFrom(names, d) ==
    IF names = << >> THEN d
    ELSE LET n == Head(names)
             k == Lower(n)
         IN  IF StartsWithUnderscore(n) THEN DictFrom(Tail(names), d)
             ELSE DictFrom(Tail(names),
                           [x \in DOMAIN d \cup {k} |-> IF x = k THEN n ELSE d[x]])

DatasetNames(reg) == DictFrom(Dir(reg), << >>)

\* ------------------------------------------------------------------ difflib
Min(a, b) == IF a <= b THEN a ELSE b

\* SequenceMatcher.find_longest_match(alo, ahi, blo, bhi), 0-based bounds as in
\* difflib, no junk: the longest block a[i:i+k] = b[j:j+k], earliest in a, then
\* earliest in b; <<alo, blo, 0>> when nothing matches.
LongestMatch(a, b, alo, ahi, blo, bhi) ==
    LET cand == { m \in (alo..(ahi - 1)) \X (blo..(bhi - 1)) \X (1..Min(ahi - alo, bhi - blo)) :
                    /\ m[1] + m[3] <= ahi
                    /\ m[2] + m[3] <= bhi
                    /\ \A t \in 0..(m[3] - 1) : a[m[1] + t + 1] = b[m[2] + t + 1] }
    IN  IF cand = {} THEN <<alo, blo, 0>>
        ELSE CHOOSE m \in cand : \A o \in cand :
                \/ m[3] > o[3]
                \/ m[3] = o[3] /\ m[1] < o[1]
                \/ m[3] = o[3] /\ m[1] = o[1] /\ m[2] <= o[2]

\* The total size of SequenceMatcher.get_matching_blocks().
RECURSIVE Matches(_, _, _, _, _, _)
Matches(a, b, alo, ahi, blo, bhi) ==
    LET m == LongestMatch(a, b, alo, ahi, blo, bhi)
    IN  IF m[3] = 0 THEN 0
        ELSE m[3]
             + (IF alo < m[1] /\ blo < m[2]
                THEN Matches(a, b, alo, m[1], blo, m[2]) ELSE 0)
             + (IF m[1] + m[3] < ahi /\ m[2] + m[3] < bhi
                THEN Matches(a, b, m[1] + m[3], ahi, m[2] + m[3], bhi) ELSE 0)

\* A ratio 2.0*M/T is kept as the pair <<2*M, T>>; difflib gives 1.0 for T = 0.
CalculateRatio(matches, length) ==
    IF length = 0 THEN <<1, 1>> ELSE <<2 * matches, length>>

Ratio(a, b) == CalculateRatio(Matches(a, b, 0, Len(a), 0, Len(b)), Len(a) + Len(b))

Count(s, c) == Cardinality({i \in 1..Len(s) : s[i] = c})

Range(s) == {s[i] : i \in 1..Len(s)}

RECURSIVE SumOver(_, _, _)
SumOver(S, a, b) ==
    IF S = {} THEN 0
    ELSE LET c == CHOOSE x \in S : TRUE
         IN  Min(Count(a, c), Count(b, c)) + SumOver(S \ {c}, a, b)

QuickRatio(a, b) == CalculateRatio(SumOver(Range(a), a, b), Len(a) + Len(b))

RealQuickRatio(a, b) == CalculateRatio(Min(Len(a), Len(b)), Len(a) + Len(b))

\* r >= c for ratios kept as pairs.
RatioGeq(r, c) == r[1] * c[2] >= c[1] * r[2]

\* get_close_matches' own default cutoff, 0.6: what dropping cutoff=0 would give.
DefaultCutoff == <<6, 10>>

\* The cutoff get_dataset passes to get_close_matches, and the default n.
Cutoff == <<0, 1>>
CloseMatchesN == 3

\* (score, x) > (score', x') as Python compares tuples.
ScoredGreater(word, x, y) ==
    LET rx == Ratio(x, word)
        ry == Ratio(y, word)
    IN  \/ rx[1] * ry[2] > ry[1] * rx[2]
        \/ rx[1] * ry[2] = ry[1] * rx[2] /\ StrLess(y, x)

RECURSIVE NLargest(_, _, _)
NLargest(n, S, word) ==
    IF n = 0 \/ S = {} THEN << >>
    ELSE LET m == CHOOSE x \in S : \A y \in S \ {x} : ScoredGreater(word, x, y)
         IN  <<m>> \o NLargest(n - 1, S \ {m}, word)

\* difflib.get_close_matches(word, possibilities, n=3, cutoff)
GetCloseMatches(word, possibilities, cutoff) ==
    LET result == { x \in possibilities :
                      /\ RatioGeq(RealQuickRatio(x, word), cutoff)
                      /\ RatioGeq(QuickRatio(x, word), cutoff)
                      /\ RatioGeq(Ratio(x, word), cutoff) }
    IN  NLargest(CloseMatchesN, result, word)

\* ---------------------------------------------------------------- get_dataset
\* The value get_dataset returns for a hit: getattr(datasets, dataset_names[name]),
\* identified by the attribute's name.
Lookup(dataset_names, key) == dataset_names[key]

\* The matched keys themselves, not the names stored under them.
SuggestKeys(dataset_names, matches) == matches

\* The names listed in the ValueError: [dataset_names[m] for m in matches].
Suggestions(dataset_names, matches) ==
    [i \in 1..Len(matches) |-> dataset_names[matches[i]]]

\* get_dataset(name) against the registry reg: the outcome as a record.
GetDataset(nm, reg) ==
    LET key == Normalize(nm)
        dataset_names == DatasetNames(reg)
    IN  IF key \in DOMAIN dataset_names
        THEN [raised |-> FALSE, value |-> Lookup(dataset_names, key), suggested |-> << >>]
        ELSE [raised |-> TRUE, value |-> None,
              suggested |-> Suggestions(dataset_names,
                               GetCloseMatches(key, DOMAIN dataset_names, Cutoff))]

\* =================================================================== numbers
Abs(x) == IF x < 0 THEN -x ELSE x

RECURSIVE GCD(_, _)
GCD(a, b) == IF b = 0 THEN a ELSE GCD(b, a % b)

\* The rational p/q (q > 0) in lowest terms, as a pair.
Rat(p, q) == LET g == GCD(Abs(p), q) IN <<p \div g, q \div g>>

RatAdd(x, y) == Rat(x[1] * y[2] + y[1] * x[2], x[2] * y[2])

RatScale(x, k) == Rat(x[1] * k, x[2])

RatDiv(x, n) == Rat(x[1], x[2] * n)

\* A tensor element: NaN, or the real number  SUM d : t[d] * sqrt(d)  with
\* non-zero rational coefficients t[d] over square-free radicands d.  Two such
\* numbers are equal as reals exactly when they are equal as values.
NaN == [nan |-> TRUE, t |-> << >>]

Zero == [nan |-> FALSE, t |-> << >>]

Term(r, d) == IF r[1] = 0 THEN Zero ELSE [nan |-> FALSE, t |-> (d :> r)]

Coef(x, d) == IF d \in DOMAIN x.t THEN x.t[d] ELSE <<0, 1>>

NumAdd(x, y) ==
    IF x.nan \/ y.nan THEN NaN
    ELSE LET D == {d \in DOMAIN x.t \cup DOMAIN y.t : RatAdd(Coef(x, d), Coef(y, d))[1] # 0}
         IN  [nan |-> FALSE, t |-> [d \in D |-> RatAdd(Coef(x, d), Coef(y, d))]]

\* x * k for an integer k >= 1 (a batch size).
NumScale(x, k) ==
    IF x.nan THEN NaN
    ELSE [nan |-> FALSE, t |-> [d \in DOMAIN x.t |-> RatScale(x.t[d], k)]]

\* x / n for an integer n >= 0.  The only division by zero the code can reach
\* is 0/0 (no batch was seen), which is NaN.
NumDiv(x, n) ==
    IF x.nan \/ n = 0 THEN NaN
    ELSE [nan |-> FALSE, t |-> [d \in DOMAIN x.t |-> RatDiv(x.t[d], n)]]

\* The largest s with s*s dividing m (m >= 1).
SquarePart(m) ==
    LET S == {s \in 1..m : s * s <= m /\ m % (s * s) = 0}
    IN  CHOOSE s \in S : \A u \in S : u <= s

\* sqrt(p/q) for p/q >= 0 in lowest terms: (sp / (sq*dq)) * sqrt(dp*dq), where
\* p = sp^2 * dp and q = sq^2 * dq.
Sqrt(r) ==
    IF r[1] = 0 THEN Zero
    ELSE LET sp == SquarePart(r[1])
             sq == SquarePart(r[2])
             dp == r[1] \div (sp * sp)
             dq == r[2] \div (sq * sq)
         IN  Term(Rat(sp, sq * dq), dp * dq)

\* =================================================================== tensors
RECURSIVE SeqSum(_)
SeqSum(s) == IF s = << >> THEN 0 ELSE Head(s) + SeqSum(Tail(s))

RECURSIVE SeqSumSq(_)
SeqSumSq(s) == IF s = << >> THEN 0 ELSE Head(s) * Head(s) + SeqSumSq(Tail(s))

\* A batch is the tensor images of shape (n, c, h, w): px[i][ch][p] is pixel p
\* (row-major) of channel ch of image i.
\* images.view(batch_size, images.size(1), -1) reduced over dims (0, 2): the
\* values of one channel, all images and all pixels.
ChannelValues(b, ch) ==
    [k \in 1..(b.n * b.h * b.w) |->
        b.px[((k - 1) \div (b.h * b.w)) + 1][ch][((k - 1) % (b.h * b.w)) + 1]]

\* images.mean(dim=(0, 2))[ch]
BatchMean(b, ch) ==
    LET v == ChannelValues(b, ch)
    IN  IF Len(v) = 0 THEN NaN ELSE Term(Rat(SeqSum(v), Len(v)), 1)

\* images.std(dim=(0, 2))[ch]: torch's default is the unbiased estimator
\* sqrt(sum((x - mean)^2) / (N - 1)), which is NaN for N <= 1.
BatchStd(b, ch) ==
    LET v == ChannelValues(b, ch)
        N == Len(v)
    IN  IF N <= 1 THEN NaN
        ELSE Sqrt(Rat(N * SeqSumSq(v) - SeqSum(v) * SeqSum(v), N * (N - 1)))

MeanDims(b) == [ch \in 1..b.c |-> BatchMean(b, ch)]

StdDims(b) == [ch \in 1..b.c |-> BatchStd(b, ch)]

TensorScale(t, k) == [i \in 1..Len(t) |-> NumScale(t[i], k)]

TensorDiv(t, n) == [i \in 1..Len(t) |-> NumDiv(t[i], n)]

\* acc += t for 1-d tensors: t is broadcast to acc's shape, which torch allows
\* when the lengths agree or t has one entry, and rejects otherwise.
CanBroadcast(acc, t) == Len(t) = Len(acc) \/ Len(t) = 1

InplaceAdd(acc, t) ==
    [i \in 1..Len(acc) |-> NumAdd(acc[i], IF Len(t) = 1 THEN t[1] ELSE t[i])]

\* torch.zeros(3)
StatChannels == 3
Zeros == [i \in 1..StatChannels |-> Zero]

\* ------------------------------------------------------------ input batches
BatchSizes == {1, 2, 3, 5}

Shapes == {<<1, 1>>, <<1, 2>>, <<2, 1>>}

\* Image contents: k in 0..MaxPixel is the constant image k; MaxPixel + 1 is an
\* image that varies over images, channels and pixels.
Contents == 0..(MaxPixel + 1)

Pixel(k, i, ch, p) == IF k <= MaxPixel THEN k ELSE (i * ch + p) % (MaxPixel + 1)

MakeBatch(n, c, h, w, k) ==
    [n |-> n, c |-> c, h |-> h, w |-> w,
     px |-> [i \in 1..n |-> [ch \in 1..c |-> [p \in 1..(h * w) |-> Pixel(k, i, ch, p)]]]]

Batches(c) ==
    { MakeBatch(n, c, s[1], s[2], k) : n \in BatchSizes, s \in Shapes, k \in Contents }

\* ---------------------------------------------------------- library objects
\* Sample i of a dataset with c channels, shape (h, w) and content k, after
\* transforms.ToTensor(): a tensor of shape (c, h, w).
Sample(c, h, w, k, i) == [ch \in 1..c |-> [p \in 1..(h * w) |-> Pixel(k, i, ch, p)]]

\* What the files under root hold for a dataset: its train split and the
\* number of samples of its test split.
Disks ==
    { [c |-> c, h |-> s[1], w |-> s[2],
       train |-> [i \in 1..n |-> Sample(c, s[1], s[2], k, i)], ntest |-> n] :
        c \in 1..MaxChannels, s \in Shapes, k \in Contents, n \in 1..MaxDataset }

\* data_module(root=..., train=..., download=True, transform=...)
Dataset(module, root, train, transform) ==
    [module |-> module, root |-> root, train |-> train, download |-> TRUE,
     transform |-> transform]

\* DataLoader(dataset, batch_size=..., shuffle=..., num_workers=...)
DataLoader(dataset, batch_size, shuffle, num_workers) ==
    [dataset |-> dataset, batch_size |-> batch_size, shuffle |-> shuffle,
     num_workers |-> num_workers]

\* The number of batches a loader yields over n samples (drop_last is off).
NumBatches(n, batch_size) == (n + batch_size - 1) \div batch_size

\* Batch j of an unshuffled loader over samples: samples (j-1)*batch_size+1 ..
\* min(j*batch_size, n), stacked by the default collate function.
LoaderBatch(d, batch_size, j) ==
    LET lo == (j - 1) * batch_size
        n  == Min(batch_size, Len(d.train) - lo)
    IN  [n |-> n, c |-> d.c, h |-> d.h, w |-> d.w,
         px |-> [i \in 1..n |-> d.train[lo + i]]]

Identity(n) == [i \in 1..n |-> i]

Perms(n) == { f \in [1..n -> 1..n] : \A i, j \in 1..n : f[i] = f[j] => i = j }

\* The order in which a loader's sampler visits n samples: RandomSampler (any
\* permutation, by the seed) when shuffle is on, SequentialSampler otherwise.
SamplerOrders(loader, n) == IF loader.shuffle THEN Perms(n) ELSE {Identity(n)}

\* ---------------------------------------------------------------- load_dataset
\* transforms.Normalize(mean, std_dev)
NormalizeOp(mean, std_dev) == [op |-> "Normalize", mean |-> mean, std |-> std_dev, size |-> None, padding |-> 0]

TransformOp(op) == [op |-> op, mean |-> << >>, std |-> << >>, size |-> None, padding |-> 0]

CropPadding == 4
RandomCropOp(size) == [op |-> "RandomCrop", mean |-> << >>, std |-> << >>, size |-> size, padding |-> CropPadding]

\* Lines 36-43.
TrainTransform(mean, std_dev, size) ==
    << RandomCropOp(size), TransformOp("RandomHorizontalFlip"), TransformOp("ToTensor"),
       NormalizeOp(mean, std_dev) >>

\* The test transform normalizing with the two statistics exchanged.
TestTransformSwapped(mean, std_dev) == << TransformOp("ToTensor"), NormalizeOp(std_dev, mean) >>

\* Lines 44-49.
TestTransform(mean, std_dev) == << TransformOp("ToTensor"), NormalizeOp(mean, std_dev) >>

\* Lines 27-29: no train argument is passed.
TempDataset(module, root) == Dataset(module, root, "default", <<TransformOp("ToTensor")>>)

\* Lines 52-54.
TrainDataset(module, root, transform) == Dataset(module, root, "True", transform)

\* Lines 55-57.
TestDataset(module, root, transform) == Dataset(module, root, "False", transform)

\* Lines 30-32.
TempLoader(dataset, batch_size, num_workers) == DataLoader(dataset, batch_size, FALSE, num_workers)

\* Lines 60-62.
TrainLoader(dataset, batch_size, num_workers) == DataLoader(dataset, batch_size, TRUE, num_workers)

\* The test loader built shuffled, like the train loader.
TestLoaderShuffled(dataset, batch_size, num_workers) == DataLoader(dataset, batch_size, TRUE, num_workers)

\* Lines 63-65.
TestLoader(dataset, batch_size, num_workers) == DataLoader(dataset, batch_size, FALSE, num_workers)

\* =================================================================== state
VARIABLES
    registry, name, rpc, outcome,
    channels, ipc, mean_sum, std_sum, num_samples, image_size, seen, info,
    lpc, args, disk, data_module, temp_dataset, temp_loader, train_transform,
    test_transform, train_dataset, test_dataset, train_loader, test_loader,
    calls, train_order, test_order

rvars == <<registry, name, rpc, outcome>>

ivars == <<channels, ipc, mean_sum, std_sum, num_samples, image_size, seen, info>>

lvars == <<lpc, args, disk, data_module, temp_dataset, temp_loader, train_transform,
           test_transform, train_dataset, test_dataset, train_loader, test_loader,
           calls, train_order, test_order>>

vars == <<rvars, ivars, lvars>>

\* ---------------------------------------------------------------- get_dataset
NoOutcome == [raised |-> FALSE, value |-> None, suggested |-> << >>]

ResolverIdle ==
    /\ registry = {}
    /\ name = << >>
    /\ rpc = "idle"
    /\ outcome = NoOutcome

ResolverInit ==
    /\ registry \in SUBSET IdentPool
    /\ name \in Names
    /\ rpc = "call"
    /\ outcome = NoOutcome

CallGetDataset ==
    /\ rpc = "call"
    /\ outcome' = GetDataset(name, registry)
    /\ rpc' = IF outcome'.raised THEN "raised" ELSE "returned"
    /\ UNCHANGED <<registry, name, ivars, lvars>>

\* ------------------------------------------------------------ get_dataset_info
NoInfo == [means |-> << >>, std_devs |-> << >>, size |-> None]

\* Lines 109-112.
InfoLocals ==
    /\ mean_sum = Zeros
    /\ std_sum = Zeros
    /\ num_samples = 0
    /\ image_size = None
    /\ seen = << >>
    /\ info = NoInfo

InfoIdle ==
    /\ channels = 0
    /\ ipc = "idle"
    /\ InfoLocals

InfoInit ==
    /\ channels \in 1..MaxChannels
    /\ ipc = "loop"
    /\ InfoLocals

\* The size recorded on every batch, without the "is None" test.
RecordSizeAlways(size, b) == <<b.h, b.w>>

\* if image_size is None: image_size = (height, width)
RecordSize(size, b) == IF size = None THEN <<b.h, b.w>> ELSE size

\* The batch mean added without its weight.
AccumulateMeanUnweighted(acc, b) == InplaceAdd(acc, MeanDims(b))

\* mean_sum += images.mean(dim=(0, 2)) * batch_size
AccumulateMean(acc, b) == InplaceAdd(acc, TensorScale(MeanDims(b), b.n))

\* The batch standard deviation added without its weight.
AccumulateStdUnweighted(acc, b) == InplaceAdd(acc, StdDims(b))

\* std_sum += images.std(dim=(0, 2)) * batch_size
AccumulateStd(acc, b) == InplaceAdd(acc, TensorScale(StdDims(b), b.n))

\* One iteration of the loop over data_loader, for the batch b.
ProcessBatch(b) ==
    /\ ipc = "loop"
    /\ num_samples' = num_samples + b.n
    /\ image_size' = RecordSize(image_size, b)
    /\ seen' = Append(seen, b)
    /\ IF CanBroadcast(mean_sum, MeanDims(b))
       THEN /\ mean_sum' = AccumulateMean(mean_sum, b)
            /\ std_sum' = AccumulateStd(std_sum, b)
            /\ ipc' = "loop"
       ELSE /\ ipc' = "error"
            /\ UNCHANGED <<mean_sum, std_sum>>
    /\ UNCHANGED <<channels, info>>

FinalMeans(sum, n) == TensorDiv(sum, n)

FinalStdDevs(sum, n) == TensorDiv(sum, n)

\* The loader is exhausted: lines 132-135.
ReturnInfo ==
    /\ ipc = "loop"
    /\ info' = [means |-> FinalMeans(mean_sum, num_samples),
                std_devs |-> FinalStdDevs(std_sum, num_samples),
                size |-> image_size]
    /\ ipc' = "done"
    /\ UNCHANGED <<channels, mean_sum, std_sum, num_samples, image_size, seen>>

\* get_dataset_info on an arbitrary stream of at most MaxBatches batches.
NextBatch ==
    /\ Len(seen) < MaxBatches
    /\ \E b \in Batches(channels) : ProcessBatch(b)
    /\ UNCHANGED <<rvars, lvars>>

Exhausted ==
    /\ ReturnInfo
    /\ UNCHANGED <<rvars, lvars>>

\* ---------------------------------------------------------------- load_dataset
\* The registry and the names load_dataset is called with: "A", "Ab", "_a";
\* "a", " A", "a B", "ba".
LoadRegistry == { <<65>>, <<65, 98>>, <<95, 97>> }

LoadNames == { <<97>>, <<32, 65>>, <<97, 32, 66>>, <<98, 97>> }

LoadIdle ==
    /\ lpc = "idle"
    /\ args = [name |-> << >>, root |-> "data", batch_size |-> 1, num_workers |-> 0]
    /\ disk = [c |-> 0, h |-> 0, w |-> 0, train |-> << >>, ntest |-> 0]
    /\ data_module = None
    /\ temp_dataset = None
    /\ temp_loader = None
    /\ train_transform = None
    /\ test_transform = None
    /\ train_dataset = None
    /\ test_dataset = None
    /\ train_loader = None
    /\ test_loader = None
    /\ calls = << >>
    /\ train_order = None
    /\ test_order = None

LoadInit ==
    /\ lpc = "get_dataset"
    /\ args \in [name : LoadNames, root : {"data"}, batch_size : 1..MaxBatchSize,
                 num_workers : 0..MaxWorkers]
    /\ disk \in Disks
    /\ registry = LoadRegistry
    /\ name = << >>
    /\ rpc = "idle"
    /\ outcome = NoOutcome
    /\ channels = disk.c
    /\ ipc = "idle"
    /\ InfoLocals
    /\ data_module = None
    /\ temp_dataset = None
    /\ temp_loader = None
    /\ train_transform = None
    /\ test_transform = None
    /\ train_dataset = None
    /\ test_dataset = None
    /\ train_loader = None
    /\ test_loader = None
    /\ calls = << >>
    /\ train_order = None
    /\ test_order = None

Step(from, to, call) ==
    /\ lpc = from
    /\ lpc' = to
    /\ calls' = Append(calls, call)

\* Line 24.
ResolveName ==
    /\ lpc = "get_dataset"
    /\ outcome' = GetDataset(args.name, registry)
    /\ calls' = Append(calls, "get_dataset")
    /\ IF outcome'.raised
       THEN lpc' = "raised" /\ UNCHANGED data_module
       ELSE lpc' = "temp_dataset" /\ data_module' = outcome'.value
    /\ UNCHANGED <<registry, name, rpc, ivars, args, disk, temp_dataset, temp_loader,
                   train_transform, test_transform, train_dataset, test_dataset,
                   train_loader, test_loader, train_order, test_order>>

\* Lines 27-29.
MakeTempDataset ==
    /\ Step("temp_dataset", "temp_loader", "temp_dataset")
    /\ temp_dataset' = TempDataset(data_module, args.root)
    /\ UNCHANGED <<rvars, ivars, args, disk, data_module, temp_loader, train_transform,
                   test_transform, train_dataset, test_dataset, train_loader,
                   test_loader, train_order, test_order>>

\* Lines 30-32.
MakeTempLoader ==
    /\ Step("temp_loader", "get_dataset_info", "temp_loader")
    /\ temp_loader' = TempLoader(temp_dataset, args.batch_size, args.num_workers)
    /\ UNCHANGED <<rvars, ivars, args, disk, data_module, temp_dataset, train_transform,
                   test_transform, train_dataset, test_dataset, train_loader,
                   test_loader, train_order, test_order>>

LoadUnchanged ==
    UNCHANGED <<rvars, args, disk, data_module, temp_dataset, temp_loader,
                train_transform, test_transform, train_dataset, test_dataset,
                train_loader, test_loader, train_order, test_order>>

\* Line 33, the call: get_dataset_info starts on temp_loader.
EnterInfo ==
    /\ lpc = "get_dataset_info"
    /\ ipc = "idle"
    /\ ipc' = "loop"
    /\ calls' = Append(calls, "get_dataset_info")
    /\ UNCHANGED <<lpc, channels, mean_sum, std_sum, num_samples, image_size, seen, info>>
    /\ LoadUnchanged

\* Line 33, one batch of temp_loader; an error in the pass leaves load_dataset.
StreamBatch ==
    /\ lpc = "get_dataset_info"
    /\ Len(seen) < NumBatches(Len(disk.train), temp_loader.batch_size)
    /\ ProcessBatch(LoaderBatch(disk, temp_loader.batch_size, Len(seen) + 1))
    /\ lpc' = IF ipc' = "error" THEN "raised" ELSE lpc
    /\ calls' = Append(calls, "batch")
    /\ LoadUnchanged

\* Line 33, the return: temp_loader is exhausted.
StreamEnd ==
    /\ lpc = "get_dataset_info"
    /\ Len(seen) = NumBatches(Len(disk.train), temp_loader.batch_size)
    /\ ReturnInfo
    /\ lpc' = "train_transform"
    /\ calls' = Append(calls, "stats")
    /\ LoadUnchanged

\* Lines 36-43.
BuildTrainTransform ==
    /\ Step("train_transform", "test_transform", "train_transform")
    /\ train_transform' = TrainTransform(info.means, info.std_devs, info.size)
    /\ UNCHANGED <<rvars, ivars, args, disk, data_module, temp_dataset, temp_loader,
                   test_transform, train_dataset, test_dataset, train_loader,
                   test_loader, train_order, test_order>>

\* Lines 44-49.
BuildTestTransform ==
    /\ Step("test_transform", "train_dataset", "test_transform")
    /\ test_transform' = TestTransform(info.means, info.std_devs)
    /\ UNCHANGED <<rvars, ivars, args, disk, data_module, temp_dataset, temp_loader,
                   train_transform, train_dataset, test_dataset, train_loader,
                   test_loader, train_order, test_order>>

\* Lines 52-54.
MakeTrainDataset ==
    /\ Step("train_dataset", "test_dataset", "train_dataset")
    /\ train_dataset' = TrainDataset(data_module, args.root, train_transform)
    /\ UNCHANGED <<rvars, ivars, args, disk, data_module, temp_dataset, temp_loader,
                   train_transform, test_transform, test_dataset, train_loader,
                   test_loader, train_order, test_order>>

\* Lines 55-57.
MakeTestDataset ==
    /\ Step("test_dataset", "train_loader", "test_dataset")
    /\ test_dataset' = TestDataset(data_module, args.root, test_transform)
    /\ UNCHANGED <<rvars, ivars, args, disk, data_module, temp_dataset, temp_loader,
                   train_transform, test_transform, train_dataset, train_loader,
                   test_loader, train_order, test_order>>

\* Lines 60-62.
MakeTrainLoader ==
    /\ Step("train_loader", "test_loader", "train_loader")
    /\ train_loader' = TrainLoader(train_dataset, args.batch_size, args.num_workers)
    /\ UNCHANGED <<rvars, ivars, args, disk, data_module, temp_dataset, temp_loader,
                   train_transform, test_transform, train_dataset, test_dataset,
                   test_loader, train_order, test_order>>

\* Lines 63-67.
MakeTestLoader ==
    /\ Step("test_loader", "returned", "test_loader")
    /\ test_loader' = TestLoader(test_dataset, args.batch_size, args.num_workers)
    /\ UNCHANGED <<rvars, ivars, args, disk, data_module, temp_dataset, temp_loader,
                   train_transform, test_transform, train_dataset, test_dataset,
                   train_loader, train_order, test_order>>

\* The caller iterates the returned train loader once more.
IterateTrain ==
    /\ lpc = "returned"
    /\ \E o \in SamplerOrders(train_loader, Len(disk.train)) : train_order' = o
    /\ UNCHANGED <<rvars, ivars, lpc, args, disk, data_module, temp_dataset, temp_loader,
                   train_transform, test_transform, train_dataset, test_dataset,
                   train_loader, test_loader, calls, test_order>>

\* The caller iterates the returned test loader once more.
IterateTest ==
    /\ lpc = "returned"
    /\ \E o \in SamplerOrders(test_loader, disk.ntest) : test_order' = o
    /\ UNCHANGED <<rvars, ivars, lpc, args, disk, data_module, temp_dataset, temp_loader,
                   train_transform, test_transform, train_dataset, test_dataset,
                   train_loader, test_loader, calls, train_order>>

LoadNext ==
    \/ ResolveName
    \/ MakeTempDataset
    \/ MakeTempLoader
    \/ EnterInfo
    \/ StreamBatch
    \/ StreamEnd
    \/ BuildTrainTransform
    \/ BuildTestTransform
    \/ MakeTrainDataset
    \/ MakeTestDataset
    \/ MakeTrainLoader
    \/ MakeTestLoader
    \/ IterateTrain
    \/ IterateTest

\* ============================================================ specifications
\* load_dataset, from the call to the use of the returned loaders.
Spec == LoadInit /\ [][LoadNext]_vars

\* get_dataset alone, over every registry and name.
InitResolver == ResolverInit /\ InfoIdle /\ LoadIdle

SpecResolver == InitResolver /\ [][CallGetDataset]_vars

InfoNext == NextBatch \/ Exhausted

\* get_dataset_info alone, over every stream of batches.
InitInfo == InfoInit /\ ResolverIdle /\ LoadIdle

SpecInfo == InitInfo /\ [][InfoNext]_vars

\* ==================================================================== claims
\* The registry's canonical identifiers and its normalized keys, as the
\* specification describes them.
Canonical(reg) == {n \in reg : ~StartsWithUnderscore(n)}

Keys(reg) == {Lower(n) : n \in Canonical(reg)}

\* "lowercased, spaces removed"
LowerNoSpaces(s) == RemoveChar(Lower(s), 32)

\* C1: for every canonical identifier N of the registry and every input that
\* differs from N only in letter case and added spaces, get_dataset returns
\* what it returns for N, and that is the entry whose canonical name is N.
C1_VariantResolvesToCanonical ==
    rpc # "call" =>
        \A N \in Canonical(registry) :
            LowerNoSpaces(name) = Lower(N) =>
                /\ outcome = GetDataset(N, registry)
                /\ ~outcome.raised
                /\ outcome.value = N

\* C2 as stated: an input whose lowercased, space-free form is no key of the
\* registry fails with a ValueError and returns nothing, and every suggested
\* name is a canonical identifier, never a normalized key nor the input.
C2_MissSuggestsNeverAKey ==
    (rpc # "call" /\ LowerNoSpaces(name) \notin Keys(registry)) =>
        /\ rpc = "raised"
        /\ outcome.value = None
        /\ \A i \in 1..Len(outcome.suggested) :
              /\ outcome.suggested[i] \in Canonical(registry)
              /\ outcome.suggested[i] \notin Keys(registry)
              /\ outcome.suggested[i] # name

\* C2 amended: an input whose normalized form as get_dataset computes it
\* (lowercased, whitespace stripped from both ends, spaces removed) is no key
\* of the registry fails with a ValueError and returns nothing; every suggested
\* name is a canonical identifier of the registry, the one stored under its own
\* lowercased key, and never the input.
C2_MissSuggestsCanonical ==
    (rpc # "call" /\ Normalize(name) \notin Keys(registry)) =>
        /\ rpc = "raised"
        /\ outcome.value = None
        /\ \A i \in 1..Len(outcome.suggested) :
              /\ outcome.suggested[i] \in Canonical(registry)
              /\ DatasetNames(registry)[Lower(outcome.suggested[i])] = outcome.suggested[i]
              /\ outcome.suggested[i] # name

\* A miss whose suggestions include a name that is not its own key.
C2_Witness ==
    /\ rpc = "raised"
    /\ Normalize(name) \notin Keys(registry)
    /\ \E i \in 1..Len(outcome.suggested) :
          outcome.suggested[i] # Lower(outcome.suggested[i])

\* C10: on a miss against a registry with n distinct normalized keys the
\* suggestion list has exactly min(3, n) entries.
C10_SuggestionCount ==
    rpc = "raised" =>
        Len(outcome.suggested) = Min(3, Cardinality(Keys(registry)))

\* A miss against four keys, none of which shares a character with the input.
C10_Witness ==
    /\ rpc = "raised"
    /\ Cardinality(Keys(registry)) > 3
    /\ Len(outcome.suggested) = 3
    /\ Normalize(name) = << >>

\* The closed forms of the statistics over the batches seen.
RECURSIVE TotalSamples(_)
TotalSamples(bs) == IF bs = << >> THEN 0 ELSE Head(bs).n + TotalSamples(Tail(bs))

RECURSIVE WeightedMeanSum(_, _)
WeightedMeanSum(bs, ch) ==
    IF bs = << >> THEN Zero
    ELSE NumAdd(NumScale(BatchMean(Head(bs), ch), Head(bs).n), WeightedMeanSum(Tail(bs), ch))

RECURSIVE WeightedStdSum(_, _)
WeightedStdSum(bs, ch) ==
    IF bs = << >> THEN Zero
    ELSE NumAdd(NumScale(BatchStd(Head(bs), ch), Head(bs).n), WeightedStdSum(Tail(bs), ch))

Returned == ipc = "done" /\ seen # << >>

\* C3: for a non-empty stream the returned mean of each channel is
\* (n_1*m_1 + ... + n_k*m_k) / (n_1 + ... + n_k); for two batches of sizes 3
\* and 5 it is (3*m1 + 5*m2)/8.
C3_WeightedMean ==
    Returned =>
        \A ch \in 1..channels :
            /\ info.means[ch] = NumDiv(WeightedMeanSum(seen, ch), TotalSamples(seen))
            /\ (Len(seen) = 2 /\ seen[1].n = 3 /\ seen[2].n = 5) =>
                  info.means[ch] = NumDiv(NumAdd(NumScale(BatchMean(seen[1], ch), 3),
                                                 NumScale(BatchMean(seen[2], ch), 5)), 8)

\* Batches of sizes 3 and 5 with different means, the result being neither.
C3_Witness ==
    /\ Returned
    /\ Len(seen) = 2 /\ seen[1].n = 3 /\ seen[2].n = 5
    /\ BatchMean(seen[1], 1) # BatchMean(seen[2], 1)
    /\ info.means[1] # BatchMean(seen[1], 1)
    /\ info.means[1] # BatchMean(seen[2], 1)

AllPixels(bs) ==
    UNION { { bs[j].px[i][ch][p] : i \in 1..bs[j].n, ch \in 1..bs[j].c, p \in 1..(bs[j].h * bs[j].w) } :
            j \in 1..Len(bs) }

\* C4: for a non-empty stream whose pixels all have one value c, whatever the
\* batches' number, sizes and spatial size, every channel's returned mean is c
\* and its returned standard deviation is zero.
C4_ConstantStream ==
    (Returned /\ Cardinality(AllPixels(seen)) = 1) =>
        \A ch \in 1..channels :
            /\ \A c \in AllPixels(seen) : info.means[ch] = Term(<<c, 1>>, 1)
            /\ info.std_devs[ch] = Zero

\* C6: for a stream of images with C channels, each returned vector has
\* exactly C entries, entry i being the statistic of channel i.
C6_PerChannelVectors ==
    /\ ipc # "error"
    /\ Returned =>
          /\ Len(info.means) = channels
          /\ Len(info.std_devs) = channels

\* C8: the recorded size is the (height, width) of the first batch and stays
\* so whatever the sizes of later batches; it is what is returned, and the
\* only error of the pass is a channel count that cannot be accumulated.
C8_SizeFromFirstBatch ==
    /\ seen = << >> => image_size = None
    /\ seen # << >> => image_size = <<seen[1].h, seen[1].w>>
    /\ ipc = "done" => info.size = image_size
    /\ ipc = "error" => channels \notin {1, StatChannels}

\* A returned pass whose second batch has another spatial size than its first.
C8_Witness ==
    /\ Returned
    /\ Len(seen) = 2
    /\ <<seen[2].h, seen[2].w>> # <<seen[1].h, seen[1].w>>
    /\ info.size = <<seen[1].h, seen[1].w>>

\* The same samples as a single batch: the values of one channel over all the
\* batches seen, and their standard deviation.
RECURSIVE PooledValues(_, _)
PooledValues(bs, ch) ==
    IF bs = << >> THEN << >> ELSE ChannelValues(Head(bs), ch) \o PooledValues(Tail(bs), ch)

PooledStd(bs, ch) ==
    LET v == PooledValues(bs, ch)
        N == Len(v)
    IN  IF N <= 1 THEN NaN
        ELSE Sqrt(Rat(N * SeqSumSq(v) - SeqSum(v) * SeqSum(v), N * (N - 1)))

\* C9: for a non-empty stream the returned standard deviation of each channel
\* is (n_1*s_1 + ... + n_k*s_k) / (n_1 + ... + n_k), s_i being the standard
\* deviation over the pixels of batch i alone.
C9_WeightedBatchStd ==
    Returned =>
        \A ch \in 1..channels :
            info.std_devs[ch] = NumDiv(WeightedStdSum(seen, ch), TotalSamples(seen))

\* A returned standard deviation that is a number and is not the standard
\* deviation of the same samples taken as one batch.
C9_Witness ==
    /\ Returned
    /\ Len(seen) = 2
    /\ ~info.std_devs[1].nan
    /\ ~PooledStd(seen, 1).nan
    /\ info.std_devs[1] # PooledStd(seen, 1)

\* The calls of a successful run, in order, for a pass of k batches.
ExpectedCalls(k) ==
    <<"get_dataset", "temp_dataset", "temp_loader", "get_dataset_info">>
    \o [j \in 1..k |-> "batch"]
    \o <<"stats", "train_transform", "test_transform", "train_dataset", "test_dataset",
         "train_loader", "test_loader">>

IsPrefix(s, t) == Len(s) <= Len(t) /\ s = SubSeq(t, 1, Len(s))

TempBatches == NumBatches(Len(disk.train), args.batch_size)

\* C5: both returned loaders use the requested batch size and worker count;
\* the test loader visits its samples in dataset order on every iteration,
\* the train loader is shuffled.
C5_LoaderSettings ==
    lpc = "returned" =>
        /\ train_loader.batch_size = args.batch_size
        /\ train_loader.num_workers = args.num_workers
        /\ train_loader.shuffle
        /\ test_loader.batch_size = args.batch_size
        /\ test_loader.num_workers = args.num_workers
        /\ ~test_loader.shuffle
        /\ test_order # None => test_order = Identity(disk.ntest)

\* Both loaders were iterated: the test loader in dataset order, the train
\* loader in another order.
C5_Witness ==
    /\ lpc = "returned"
    /\ disk.ntest > 1
    /\ test_order = Identity(disk.ntest)
    /\ train_order # None
    /\ train_order # Identity(Len(disk.train))

\* C7: a run of load_dataset resolves the name, instantiates the unnormalized
\* dataset, streams it once, unshuffled, to completion, and only then builds
\* the transforms, instantiates the train and test datasets and wraps them;
\* both transforms normalize with the statistics that pass returned.
C7_PipelineOrder ==
    /\ IsPrefix(calls, ExpectedCalls(TempBatches))
    /\ temp_loader # None =>
          /\ ~temp_loader.shuffle
          /\ temp_loader.dataset.transform = <<TransformOp("ToTensor")>>
    /\ (train_transform # None \/ train_dataset # None \/ test_dataset # None) =>
          /\ ipc = "done"
          /\ seen = [j \in 1..TempBatches |-> LoaderBatch(disk, args.batch_size, j)]
    /\ train_transform # None =>
          train_transform[Len(train_transform)] = NormalizeOp(info.means, info.std_devs)
    /\ test_transform # None =>
          test_transform[Len(test_transform)] = NormalizeOp(info.means, info.std_devs)
    /\ train_dataset # None => train_dataset.transform = train_transform
    /\ test_dataset # None => test_dataset.transform = test_transform
    /\ train_loader # None => train_loader.dataset = train_dataset
    /\ test_loader # None => test_loader.dataset = test_dataset

\* A run that returned after a pass of more than one batch.
C7_Witness ==
    /\ lpc = "returned"
    /\ Len(seen) > 1
    /\ Len(calls) = Len(ExpectedCalls(TempBatches))
=============================================================================
